---- MODULE Spec2Model ----
(***************************************************************************)
(* Model of the TX/LA drilling-permit tracker: the interactive app         *)
(* (src/app.py) and the standalone ingestion job (src/ingest_job.py).      *)
(*                                                                         *)
(* Text is modelled as a sequence of one-character strings, so that        *)
(* lower(), strip(), substring tests and f-string formatting are computed  *)
(* character by character.  A DataFrame is [columns, rows]: the column     *)
(* names in order and the rows in index order, a row being the sequence of *)
(* its cells in column order.  A cell is NA, Str(text) or Ts(day number).  *)
(***************************************************************************)
EXTENDS Integers, Sequences, FiniteSets, TLC

VARIABLES
    \* harmonizer under test
    hpc, df, fallback_state, resolved, out,
    \* content decoder under test
    dpc, content, content_type, decoded,
    \* Source Fetcher: the st.cache_data store, the clock (seconds), and the
    \* record of the fetches made
    cache, now, prev, pair,
    \* one run of the app's script: the widget values, what each live source
    \* gave, load_live_data's return value, the batch selected by the mode,
    \* the batch at the end of the run, the warnings shown, how the run ended
    widgets, attempts, live_result, loaded, data, issues, ended,
    \* the ingestion job: the rows of the target table, the latest run of
    \* main, the number of runs
    table, job, runs

hvars == <<hpc, df, fallback_state, resolved, out>>
dvars == <<dpc, content, content_type, decoded>>
fvars == <<cache, now, prev, pair>>
avars == <<widgets, attempts, live_result, loaded, data, issues, ended>>
jvars == <<table, job, runs>>
vars == <<hvars, dvars, fvars, avars, jvars>>

----------------------------------------------------------------------------
(* Python str operations *)

UPPER == <<"A","B","C","D","E","F","G","H","I","J","K","L","M",
           "N","O","P","Q","R","S","T","U","V","W","X","Y","Z">>
LOWER == <<"a","b","c","d","e","f","g","h","i","j","k","l","m",
           "n","o","p","q","r","s","t","u","v","w","x","y","z">>
WHITESPACE == {" ", "\t", "\n", "\r"}
DIGITS == <<"0","1","2","3","4","5","6","7","8","9">>

SetMin(S) == CHOOSE x \in S : \A y \in S : x <= y
SetMax(S) == CHOOSE x \in S : \A y \in S : x >= y

\* the list [F(1), ..., F(n)], built once
list_of(n, F(_)) == SubSeq([i \in 1..n |-> F(i)], 1, n)

LOWER_OF == [c \in {UPPER[i] : i \in 1..26} |-> LOWER[CHOOSE i \in 1..26 : UPPER[i] = c]]
lower_char(c) == IF c \in DOMAIN LOWER_OF THEN LOWER_OF[c] ELSE c

\* str.lower()
str_lower(s) == list_of(Len(s), LAMBDA i : lower_char(s[i]))

RECURSIVE str_lstrip(_)
str_lstrip(s) ==
    IF s = <<>> THEN s
    ELSE IF Head(s) \in WHITESPACE THEN str_lstrip(Tail(s)) ELSE s

RECURSIVE str_rstrip(_)
str_rstrip(s) ==
    IF s = <<>> THEN s
    ELSE IF s[Len(s)] \in WHITESPACE THEN str_rstrip(SubSeq(s, 1, Len(s) - 1)) ELSE s

\* str.strip(): leading and trailing whitespace removed, interior kept
str_strip(s) == str_rstrip(str_lstrip(s))

\* sub in s
str_contains(s, sub) ==
    \E i \in 0..(Len(s) - Len(sub)) :
        \A j \in 1..Len(sub) : s[i + j] = sub[j]

RECURSIVE decimal(_)
\* the decimal digits of n >= 0
decimal(n) == IF n < 10 THEN <<DIGITS[n + 1]>> ELSE decimal(n \div 10) \o <<DIGITS[(n % 10) + 1]>>

RECURSIVE zero_pad(_, _)
\* format(n, "0{width}d"): left-padded with zeros to at least width characters
zero_pad(s, width) == IF Len(s) >= width THEN s ELSE zero_pad(<<"0">> \o s, width)

----------------------------------------------------------------------------
(* cells and frames *)

NA == [na |-> TRUE]
Str(s) == [str |-> s]
Ts(d) == [ts |-> d]
isna(c) == c = NA

DataFrame(cols, rws) == [columns |-> cols, rows |-> rws]
nrows(frame) == Len(frame.rows)
has_column(frame, name) == \E i \in 1..Len(frame.columns) : frame.columns[i] = name
col_index(frame, name) == SetMin({i \in 1..Len(frame.columns) : frame.columns[i] = name})

\* frame[name]
get_column(frame, name) ==
    LET c == col_index(frame, name)
    IN  list_of(nrows(frame), LAMBDA r : frame.rows[r][c])

\* frame[name] = vals: replaces the column in place, or appends a new last column
set_column(frame, name, vals) ==
    IF has_column(frame, name)
    THEN DataFrame(frame.columns,
                   list_of(nrows(frame), LAMBDA r :
                       [frame.rows[r] EXCEPT ![col_index(frame, name)] = vals[r]]))
    ELSE DataFrame(Append(frame.columns, name),
                   list_of(nrows(frame), LAMBDA r : Append(frame.rows[r], vals[r])))

\* frame[name] = frame[name].fillna(value)
fillna(frame, name, value) ==
    LET old == get_column(frame, name)
    IN  set_column(frame, name,
                   list_of(nrows(frame), LAMBDA r : IF isna(old[r]) THEN value ELSE old[r]))

\* the components a specification leaves out stay idle
NOT_RUN == DataFrame(<<>>, <<>>)

HIdle ==
    /\ hpc = "off" /\ df = NOT_RUN /\ fallback_state = <<>>
    /\ resolved = NOT_RUN /\ out = NOT_RUN
DIdle == dpc = "off" /\ content = <<>> /\ content_type = <<>> /\ decoded = <<>>
FIdle == cache = <<>> /\ now = 0 /\ prev = <<>> /\ pair = <<>>
AIdle ==
    /\ widgets = <<>> /\ attempts = <<>> /\ live_result = <<>> /\ loaded = <<>>
    /\ data = <<>> /\ issues = <<>> /\ ended = <<>>
JIdle == table = <<>> /\ job = <<>> /\ runs = 0

----------------------------------------------------------------------------
(* constants of both programs *)

REQUIRED_COLUMNS ==
    << <<"p","e","r","m","i","t","_","i","d">>, <<"s","t","a","t","e">>, <<"o","p","e","r","a","t","o","r">>, <<"c","o","u","n","t","y","_","p","a","r","i","s","h">>, <<"w","e","l","l","_","n","a","m","e">>,
       <<"p","e","r","m","i","t","_","t","y","p","e">>, <<"s","t","a","t","u","s">>, <<"a","p","p","l","i","c","a","t","i","o","n","_","d","a","t","e">>, <<"a","p","p","r","o","v","a","l","_","d","a","t","e">>,
       <<"e","x","p","i","r","a","t","i","o","n","_","d","a","t","e">> >>

\* the dict in insertion order: <<target column, ordered alias candidates>>
COLUMN_ALIASES ==
    << << <<"p","e","r","m","i","t","_","i","d">>, << <<"p","e","r","m","i","t","_","i","d">>, <<"p","e","r","m","i","t","_","n","u","m","b","e","r">>, <<"p","e","r","m","i","t","_","n","o">>, <<"a","p","i","_","n","u","m","b","e","r">>, <<"a","p","i">> >> >>,
       << <<"s","t","a","t","e">>, << <<"s","t","a","t","e">>, <<"j","u","r","i","s","d","i","c","t","i","o","n">> >> >>,
       << <<"o","p","e","r","a","t","o","r">>, << <<"o","p","e","r","a","t","o","r">>, <<"o","p","e","r","a","t","o","r","_","n","a","m","e">>, <<"c","o","m","p","a","n","y">>, <<"o","r","g","a","n","i","z","a","t","i","o","n">> >> >>,
       << <<"c","o","u","n","t","y","_","p","a","r","i","s","h">>, << <<"c","o","u","n","t","y","_","p","a","r","i","s","h">>, <<"c","o","u","n","t","y">>, <<"p","a","r","i","s","h">>, <<"l","o","c","a","t","i","o","n">> >> >>,
       << <<"w","e","l","l","_","n","a","m","e">>, << <<"w","e","l","l","_","n","a","m","e">>, <<"w","e","l","l">>, <<"w","e","l","l","b","o","r","e","_","n","a","m","e">>, <<"l","e","a","s","e","_","w","e","l","l","_","n","a","m","e">> >> >>,
       << <<"p","e","r","m","i","t","_","t","y","p","e">>, << <<"p","e","r","m","i","t","_","t","y","p","e">>, <<"w","e","l","l","_","t","y","p","e">>, <<"d","r","i","l","l","_","t","y","p","e">>, <<"p","e","r","m","i","t","_","c","a","t","e","g","o","r","y">> >> >>,
       << <<"s","t","a","t","u","s">>, << <<"s","t","a","t","u","s">>, <<"p","e","r","m","i","t","_","s","t","a","t","u","s">>, <<"a","p","p","r","o","v","a","l","_","s","t","a","t","u","s">> >> >>,
       << <<"a","p","p","l","i","c","a","t","i","o","n","_","d","a","t","e">>, << <<"a","p","p","l","i","c","a","t","i","o","n","_","d","a","t","e">>, <<"a","p","p","l","i","c","a","t","i","o","n","_","d","t">>, <<"f","i","l","e","d","_","d","a","t","e">>, <<"s","u","b","m","i","t","t","e","d","_","d","a","t","e">> >> >>,
       << <<"a","p","p","r","o","v","a","l","_","d","a","t","e">>, << <<"a","p","p","r","o","v","a","l","_","d","a","t","e">>, <<"a","p","p","r","o","v","e","d","_","d","a","t","e">>, <<"a","p","p","r","o","v","a","l","_","d","t">>, <<"i","s","s","u","e","_","d","a","t","e">> >> >>,
       << <<"e","x","p","i","r","a","t","i","o","n","_","d","a","t","e">>, << <<"e","x","p","i","r","a","t","i","o","n","_","d","a","t","e">>, <<"e","x","p","i","r","y","_","d","a","t","e">>, <<"e","x","p","i","r","a","t","i","o","n","_","d","t">>, <<"e","x","p","i","r","e","s","_","o","n">> >> >> >>

DATE_COLUMNS == << <<"a","p","p","l","i","c","a","t","i","o","n","_","d","a","t","e">>, <<"a","p","p","r","o","v","a","l","_","d","a","t","e">>, <<"e","x","p","i","r","a","t","i","o","n","_","d","a","t","e">> >>

\* the value None: no text equals it, a text holding one-character strings only
None == <<"None">>

----------------------------------------------------------------------------
(* Schema Harmonizer *)

\* lookup = {c.lower().strip(): c for c in df.columns}, as the list of its
\* <<key, column>> assignments in order: a later column overwrites an earlier
\* one under the same key
lookup_of(columns) ==
    list_of(Len(columns), LAMBDA i : <<str_strip(str_lower(columns[i])), columns[i]>>)
lookup_has(lookup, key) == \E i \in 1..Len(lookup) : lookup[i][1] = key
lookup_get(lookup, key) == lookup[SetMax({i \in 1..Len(lookup) : lookup[i][1] = key})][2]

RECURSIVE first_candidate(_, _, _)
\* the for loop over candidates from the k-th on
first_candidate(lookup, candidates, k) ==
    IF k > Len(candidates) THEN None
    ELSE LET key == str_strip(str_lower(candidates[k]))
         IN  IF lookup_has(lookup, key) THEN lookup_get(lookup, key)
             ELSE first_candidate(lookup, candidates, k + 1)

\* variant: the lookup keyed by the headers as written
_find_alias_column_exact(columns, candidates) ==
    first_candidate(list_of(Len(columns), LAMBDA i : <<columns[i], columns[i]>>),
                    candidates, 1)

_find_alias_column(columns, candidates) ==
    first_candidate(lookup_of(columns), candidates, 1)

RECURSIVE resolve_aliases(_, _, _)
\* the loop over COLUMN_ALIASES.items() from its k-th item on
resolve_aliases(frame, acc, k) ==
    IF k > Len(COLUMN_ALIASES) THEN acc
    ELSE LET target_col == COLUMN_ALIASES[k][1]
             source_col == _find_alias_column(frame.columns, COLUMN_ALIASES[k][2])
             vals == IF source_col # None THEN get_column(frame, source_col)
                     ELSE list_of(nrows(frame), LAMBDA r : NA)
         IN  resolve_aliases(frame, set_column(acc, target_col, vals), k + 1)

\* variant: the output started as a copy of the input
resolved_frame_copy(frame) == resolve_aliases(frame, frame, 1)

\* out = pd.DataFrame(index=df.index), then the alias loop
resolved_frame(frame) ==
    resolve_aliases(frame, DataFrame(<<>>, list_of(nrows(frame), LAMBDA r : <<>>)), 1)

apply_defaults(frame, fallback) ==
    LET f1 == fillna(frame, <<"s","t","a","t","e">>, Str(fallback))
        f2 == fillna(f1, <<"s","t","a","t","u","s">>, Str(<<"P","e","n","d","i","n","g">>))
        f3 == fillna(f2, <<"p","e","r","m","i","t","_","t","y","p","e">>, Str(<<"U","n","k","n","o","w","n">>))
        f4 == fillna(f3, <<"o","p","e","r","a","t","o","r">>, Str(<<"U","n","k","n","o","w","n"," ","O","p","e","r","a","t","o","r">>))
        f5 == fillna(f4, <<"c","o","u","n","t","y","_","p","a","r","i","s","h">>, Str(<<"U","n","k","n","o","w","n">>))
    IN  fillna(f5, <<"w","e","l","l","_","n","a","m","e">>, Str(<<"U","n","k","n","o","w","n"," ","W","e","l","l">>))

\* f"{fallback_state}-AUTO-{i+1:06d}" for the 0-based position i = n - 1
auto_id(fallback, n) == fallback \o <<"-","A","U","T","O","-">> \o zero_pad(decimal(n), 6)

\* variant: every empty identifier filled on its own
synthesize_ids_per_row(frame, fallback) ==
    LET ids == get_column(frame, <<"p","e","r","m","i","t","_","i","d">>)
    IN  set_column(frame, <<"p","e","r","m","i","t","_","i","d">>,
                   list_of(nrows(frame), LAMBDA r :
                       IF isna(ids[r]) THEN Str(auto_id(fallback, r)) ELSE ids[r]))

synthesize_ids(frame, fallback) ==
    LET ids == get_column(frame, <<"p","e","r","m","i","t","_","i","d">>)
    IN  IF \A r \in 1..nrows(frame) : isna(ids[r])
        THEN set_column(frame, <<"p","e","r","m","i","t","_","i","d">>,
                        list_of(nrows(frame), LAMBDA r : Str(auto_id(fallback, r))))
        ELSE frame

\* src/app.py harmonize_schema
harmonize_schema(frame, fallback) ==
    synthesize_ids(apply_defaults(resolved_frame(frame), fallback), fallback)

----------------------------------------------------------------------------
(* dates *)

digit_val(c) == (CHOOSE i \in 1..10 : DIGITS[i] = c) - 1
is_digit(c) == \E i \in 1..10 : DIGITS[i] = c

is_leap(y) == (y % 4 = 0 /\ y % 100 # 0) \/ y % 400 = 0
days_in_month(y, m) ==
    IF m = 2 THEN (IF is_leap(y) THEN 29 ELSE 28)
    ELSE IF m \in {4, 6, 9, 11} THEN 30 ELSE 31

\* days since 1970-01-01 of a proleptic Gregorian date
days_from_civil(y, m, d) ==
    LET yy == IF m <= 2 THEN y - 1 ELSE y
        era == yy \div 400
        yoe == yy - era * 400
        mp == IF m > 2 THEN m - 3 ELSE m + 9
        doy == (153 * mp + 2) \div 5 + d - 1
        doe == yoe * 365 + yoe \div 4 - yoe \div 100 + doy
    IN  era * 146097 + doe - 719468

\* pd.to_datetime(value, errors="coerce") of one cell: a text in ISO form
\* YYYY-MM-DD naming a real day parses, any other text of the model becomes
\* NaT, a timestamp stays, NA stays
to_datetime(c) ==
    IF isna(c) THEN NA
    ELSE IF "ts" \in DOMAIN c THEN c
    ELSE IF "str" \notin DOMAIN c THEN NA
    ELSE LET s == c.str
             shaped == /\ Len(s) = 10
                       /\ s[5] = "-" /\ s[8] = "-"
                       /\ \A i \in {1, 2, 3, 4, 6, 7, 9, 10} : is_digit(s[i])
             y == digit_val(s[1]) * 1000 + digit_val(s[2]) * 100
                      + digit_val(s[3]) * 10 + digit_val(s[4])
             m == digit_val(s[6]) * 10 + digit_val(s[7])
             d == digit_val(s[9]) * 10 + digit_val(s[10])
         IN  IF shaped /\ m \in 1..12 /\ d >= 1 /\ d <= days_in_month(y, m)
             THEN Ts(days_from_civil(y, m, d))
             ELSE NA

\* frame[name] = pd.to_datetime(frame[name], errors="coerce")
column_to_datetime(frame, name) ==
    LET old == get_column(frame, name)
    IN  set_column(frame, name, list_of(nrows(frame), LAMBDA r : to_datetime(old[r])))

\* src/ingest_job.py harmonize_schema: the same resolution, defaults and
\* identifier synthesis, then the date columns parsed and every row stamped
harmonize_schema_job(frame, fallback, stamp) ==
    LET h == synthesize_ids(apply_defaults(resolved_frame(frame), fallback), fallback)
        d1 == column_to_datetime(h, DATE_COLUMNS[1])
        d2 == column_to_datetime(d1, DATE_COLUMNS[2])
        d3 == column_to_datetime(d2, DATE_COLUMNS[3])
    IN  set_column(d3, <<"i","n","g","e","s","t","e","d","_","a","t","_","u","t","c">>, list_of(nrows(h), LAMBDA r : [utc |-> stamp]))

----------------------------------------------------------------------------
(* Content Decoder *)

\* A response body is what its bytes parse to: kind "json" with the parsed
\* value, kind "csv" with the header and the lines of fields, or kind
\* "garbage", which neither parser accepts.  A JSON value is a list of
\* items, an object (its <<key, value>> entries in document order), a text
\* or null.
JsonList(items) == [t |-> "list", items |-> items]
JsonObj(entries) == [t |-> "obj", entries |-> entries]
JsonStr(s) == [t |-> "str", s |-> s]
JsonNull == [t |-> "null"]

JsonBody(v) == [kind |-> "json", value |-> v]
CsvBody(header, lines) == [kind |-> "csv", header |-> header, lines |-> lines]
GarbageBody == [kind |-> "garbage"]

Ok(frame) == [ok |-> TRUE, frame |-> frame]
Raise(exc) == [ok |-> FALSE, error |-> exc]

WRAPPER_KEYS == << <<"d","a","t","a">>, <<"r","e","s","u","l","t","s">>, <<"f","e","a","t","u","r","e","s">>, <<"i","t","e","m","s">> >>

obj_has(obj, key) == \E i \in 1..Len(obj.entries) : obj.entries[i][1] = key
obj_get(obj, key) ==
    obj.entries[SetMin({i \in 1..Len(obj.entries) : obj.entries[i][1] = key})][2]
obj_keys(obj) == list_of(Len(obj.entries), LAMBDA i : obj.entries[i][1])

\* the cell a JSON value becomes
json_cell(v) == IF v.t = "null" THEN NA ELSE IF v.t = "str" THEN Str(v.s) ELSE v

RECURSIVE union_keys(_, _, _)
\* the keys of the items from the k-th on, in order of first appearance
union_keys(items, acc, k) ==
    IF k > Len(items) THEN acc
    ELSE LET ks == obj_keys(items[k])
             fresh == SelectSeq(ks, LAMBDA x : \A i \in 1..Len(acc) : acc[i] # x)
         IN  union_keys(items, acc \o fresh, k + 1)

\* pd.json_normalize of a list of flat objects: one row per item, a column
\* per key, NaN where an item lacks the key
json_normalize(items) ==
    LET cols == union_keys(items, <<>>, 1)
    IN  DataFrame(cols,
                  list_of(Len(items), LAMBDA r :
                      list_of(Len(cols), LAMBDA c :
                          IF obj_has(items[r], cols[c])
                          THEN json_cell(obj_get(items[r], cols[c]))
                          ELSE NA)))

\* pd.DataFrame(payload) of a payload that is no list: a mapping of columns.
\* Scalar values alone give no index and raise; lists give the rows, every
\* list of one length, scalars repeated along them; None gives the empty
\* frame and any other scalar raises.
dataframe_of(payload) ==
    IF payload.t = "null" THEN Ok(DataFrame(<<>>, <<>>))
    ELSE IF payload.t # "obj" THEN Raise("ValueError")
    ELSE LET es == payload.entries
             lists == {i \in 1..Len(es) : es[i][2].t = "list"}
             lens == {Len(es[i][2].items) : i \in lists}
         IN  IF es = <<>> THEN Ok(DataFrame(<<>>, <<>>))
             ELSE IF lists = {} THEN Raise("ValueError")
             ELSE IF Cardinality(lens) > 1 THEN Raise("ValueError")
             ELSE LET n == CHOOSE x \in lens : TRUE
                  IN  Ok(DataFrame(obj_keys(payload),
                                   list_of(n, LAMBDA r :
                                       list_of(Len(es), LAMBDA c :
                                           IF c \in lists
                                           THEN json_cell(es[c][2].items[r])
                                           ELSE json_cell(es[c][2])))))

\* pd.read_csv: no header line raises, an empty field is NaN
read_csv(body) ==
    IF body.kind = "garbage" \/ body.header = <<>> THEN Raise("ParserError")
    ELSE Ok(DataFrame(body.header,
                      list_of(Len(body.lines), LAMBDA r :
                          list_of(Len(body.header), LAMBDA c :
                              IF body.lines[r][c] = <<>> THEN NA
                              ELSE Str(body.lines[r][c])))))

RECURSIVE unwrap(_, _)
\* the for loop over the wrapper keys from the k-th on
unwrap(payload, k) ==
    IF k > Len(WRAPPER_KEYS) THEN payload
    ELSE IF obj_has(payload, WRAPPER_KEYS[k]) THEN obj_get(payload, WRAPPER_KEYS[k])
    ELSE unwrap(payload, k + 1)

_response_to_dataframe(body, ctype) ==
    IF str_contains(ctype, <<"j","s","o","n">>)
    THEN IF body.kind # "json" THEN Raise("JSONDecodeError")
         ELSE LET payload == IF body.value.t = "obj" THEN unwrap(body.value, 1)
                             ELSE body.value
              IN  IF payload.t = "list" THEN Ok(json_normalize(payload.items))
                  ELSE dataframe_of(payload)
    ELSE read_csv(body)

----------------------------------------------------------------------------
(* Source Fetcher *)

\* What one requests.get gives: a transport failure, or a response with its
\* status, Content-Type header and body.
TransportError(exc) == [err |-> exc]
Response(status, ctype, body) == [status |-> status, ctype |-> ctype, body |-> body]
is_transport_error(r) == "err" \in DOMAIN r

\* variant: one GET per call
fetch_remote_permits_single_get(url, state, r1, r2) ==
    IF is_transport_error(r2) THEN [result |-> Raise(r2.err), calls |-> 1]
    ELSE IF r2.status >= 400 /\ r2.status < 600
    THEN [result |-> Raise("HTTPError"), calls |-> 1]
    ELSE LET raw == _response_to_dataframe(r2.body, str_lower(r2.ctype))
         IN  IF ~raw.ok THEN [result |-> raw, calls |-> 1]
             ELSE [result |-> Ok(harmonize_schema(raw.frame, state)), calls |-> 1]

\* harmonize_schema(raw, fallback_state=state), raw being what the decoder
\* gave or raised
harmonize_decoded(raw, state) == IF ~raw.ok THEN raw ELSE Ok(harmonize_schema(raw.frame, state))

\* the body of fetch_remote_permits, r1 and r2 being what its two
\* requests.get give: the result, and the number of GETs issued
fetch_remote_permits(url, state, r1, r2) ==
    IF is_transport_error(r1) THEN [result |-> Raise(r1.err), calls |-> 1]
    ELSE IF is_transport_error(r2) THEN [result |-> Raise(r2.err), calls |-> 2]
    ELSE IF r2.status >= 400 /\ r2.status < 600
    THEN [result |-> Raise("HTTPError"), calls |-> 2]
    ELSE [result |-> harmonize_decoded(_response_to_dataframe(r2.body, str_lower(r2.ctype)), state),
          calls |-> 2]

\* @st.cache_data(ttl=60 * 60)
TTL == 60 * 60

\* the entries still alive at time t
RECURSIVE entries_under(_, _)
\* the store restricted to keys
entries_under(store, keys) ==
    IF keys = {} THEN <<>>
    ELSE LET k == CHOOSE x \in keys : TRUE
         IN  (k :> store[k]) @@ entries_under(store, keys \ {k})

live_entries(store, t) ==
    entries_under(store, {x \in DOMAIN store : t < store[x].stored_at + TTL})

\* variant: whatever the call gives, error or batch, is stored
cached_fetch_storing_errors(store, t, url, state, r1, r2) ==
    LET live == live_entries(store, t)
        key == <<url, state>>
    IN  IF key \in DOMAIN live
        THEN [result |-> live[key].value, store |-> live, calls |-> 0, hit |-> TRUE]
        ELSE LET run == fetch_remote_permits(url, state, r1, r2)
             IN  [result |-> run.result,
                  store |-> live @@ (key :> [value |-> run.result, stored_at |-> t]),
                  calls |-> run.calls, hit |-> FALSE]

\* a miss: run is what the body gave, stored if it is a return value
cache_miss(entries, key, t, run) ==
    [result |-> run.result,
     store |-> IF run.result.ok
               THEN entries @@ (key :> [value |-> run.result, stored_at |-> t])
               ELSE entries,
     calls |-> run.calls, hit |-> FALSE]

\* the lookup among the live entries
cache_lookup(entries, key, t, r1, r2) ==
    IF key \in DOMAIN entries
    THEN [result |-> entries[key].value, store |-> entries, calls |-> 0, hit |-> TRUE]
    ELSE cache_miss(entries, key, t, fetch_remote_permits(key[1], key[2], r1, r2))

\* a call of the decorated fetch_remote_permits at time t: a live entry under
\* (url, state) is returned without running the body; otherwise the body
\* runs and its return value, if it returns, is stored
cached_fetch(store, t, url, state, r1, r2) ==
    cache_lookup(live_entries(store, t), <<url, state>>, t, r1, r2)

----------------------------------------------------------------------------
(* fetcher runs *)

MaxTicks == 2
TICK == TTL \div 2

TX_URL == <<"h","t","t","p",":","/","/","t","x">>
LA_URL == <<"h","t","t","p",":","/","/","l","a">>
URLS == {TX_URL, LA_URL}

TIMEOUT == TransportError("Timeout")
NOT_FOUND == Response(404, <<"t","e","x","t","/","h","t","m","l">>, GarbageBody)
UNDECODABLE == Response(200, <<"A","p","p","l","i","c","a","t","i","o","n","/","J","S","O","N">>, GarbageBody)
TX_EXPORT ==
    Response(200, <<"t","e","x","t","/","c","s","v">>,
             CsvBody(<< <<"P","e","r","m","i","t","_","N","o">>, <<"E","x","p","i","r","y","_","D","a","t","e">> >>,
                     << << <<"A","-","1","7">>, <<"2","0","2","6","-","0","3","-","0","1">> >>, << <<>>, <<"n","/","a">> >> >>))
LA_EXPORT ==
    Response(200, <<"A","p","p","l","i","c","a","t","i","o","n","/","J","S","O","N",";"," ","c","h","a","r","s","e","t","=","u","t","f","-","8">>,
             JsonBody(JsonObj(<< << <<"r","e","s","u","l","t","s">>,
                                    JsonList(<< JsonObj(<< <<<<"a","p","i">>, JsonStr(<<"4","2">>)>> >>) >>) >> >>)))

\* what a GET of the url may give
responses(url) ==
    {TIMEOUT, NOT_FOUND, UNDECODABLE, IF url = TX_URL THEN TX_EXPORT ELSE LA_EXPORT}

\* the first GET's response is never read: a timeout, or some response
first_get(url) == {TIMEOUT, NOT_FOUND}

FETCH_KEYS == {<<TX_URL, <<"T","X">>>>, <<LA_URL, <<"L","A">>>>}

InitFetch ==
    /\ cache = <<>>
    /\ now = 0
    /\ prev = [k \in FETCH_KEYS |-> <<>>]
    /\ pair = <<>>
    /\ HIdle /\ DIdle /\ AIdle /\ JIdle

\* One call of the cached fetcher.  prev keeps, per key, the latest fetch
\* since the last invalidation (or that the cache was invalidated since), and
\* pair the latest fetch together with what prev held for its key.
Fetch ==
    \E key \in FETCH_KEYS :
        \E r1 \in first_get(key[1]), r2 \in responses(key[1]) :
            \E call \in {cached_fetch(cache, now, key[1], key[2], r1, r2)} :
                \E this \in {[at |-> now, ok |-> call.result.ok, calls |-> call.calls]} :
                    /\ cache' = call.store
                    /\ prev' = [prev EXCEPT ![key] = this]
                    /\ pair' = [key |-> key, first |-> prev[key], second |-> this]
                    /\ UNCHANGED <<now, hvars, dvars, avars, jvars>>

\* fetch_remote_permits.clear(): every entry dropped
Clear ==
    /\ cache' = <<>>
    /\ prev' = [k \in FETCH_KEYS |-> [cleared |-> TRUE]]
    /\ UNCHANGED <<now, pair, hvars, dvars, avars, jvars>>

\* time passes
Tick ==
    /\ now < MaxTicks * TICK
    /\ now' = now + TICK
    /\ UNCHANGED <<cache, prev, pair, hvars, dvars, avars, jvars>>

NextFetch == Fetch \/ Clear \/ Tick
SpecFetch == InitFetch /\ [][NextFetch]_vars

----------------------------------------------------------------------------
(* properties of the fetcher *)

is_fetch(rec) == "at" \in DOMAIN rec

\* C2 as claimed: a fetch that went to the network and returned, followed
\* within the TTL by a fetch of the same key with no invalidation between
\* them, makes one network call with it in total, the second making none;
\* the first fetch of a key after an invalidation makes a network call.
C2_OneCallPerWindow ==
    pair # <<>> =>
        /\ (/\ is_fetch(pair.first) /\ pair.first.ok /\ pair.first.calls > 0
            /\ pair.second.at - pair.first.at < TTL)
                => /\ pair.second.calls = 0
                   /\ pair.first.calls + pair.second.calls = 1
        /\ "cleared" \in DOMAIN pair.first => pair.second.calls >= 1

\* the number of records the export of the url holds
export_rows(url) == IF url = TX_URL THEN 2 ELSE 1

\* C3: a failed fetch writes no cache entry: after a fetch of a key failed
\* the cache holds nothing under the key, the next fetch of the key goes to
\* the network again, and every entry of the cache is the harmonized batch of
\* a fetch that succeeded.
C3_FailuresNotCached ==
    /\ \A k \in FETCH_KEYS :
        (is_fetch(prev[k]) /\ ~prev[k].ok) => k \notin DOMAIN cache
    /\ (pair # <<>> /\ is_fetch(pair.first) /\ ~pair.first.ok) => pair.second.calls >= 1
    /\ \A k \in DOMAIN cache :
        /\ cache[k].value.ok
        /\ cache[k].value.frame.columns = REQUIRED_COLUMNS
        /\ nrows(cache[k].value.frame) = export_rows(k[1])
        /\ \A r \in 1..export_rows(k[1]) :
            get_column(cache[k].value.frame, <<"s","t","a","t","e">>)[r] = Str(k[2])

\* a fetch of a key failed, and the next fetch of the key, nothing
\* invalidated between them, made both GETs, succeeded and was stored
C3_Witness ==
    /\ pair # <<>>
    /\ is_fetch(pair.first) /\ ~pair.first.ok
    /\ pair.second.ok /\ pair.second.calls = 2
    /\ pair.second.at = pair.first.at
    /\ pair.key \in DOMAIN cache

----------------------------------------------------------------------------
(* decoder runs *)

MaxItems == 2

REC_A == JsonObj(<< <<<<"p","e","r","m","i","t","_","i","d">>, JsonStr(<<"P","-","1">>)>>, <<<<"o","p","e","r","a","t","o","r">>, JsonStr(<<"A","c","m","e">>)>> >>)
REC_B == JsonObj(<< <<<<"a","p","i">>, JsonStr(<<"4","2">>)>>, <<<<"s","t","a","t","e">>, JsonNull>> >>)

RECURSIVE item_lists(_)
item_lists(n) ==
    IF n = 0 THEN {<<>>}
    ELSE LET shorter == item_lists(n - 1)
         IN  shorter \cup {Append(l, x) : l \in {y \in shorter : Len(y) = n - 1},
                                          x \in {REC_A, REC_B}}

\* what a wrapper key holds: a list whose one record names the key, the
\* record alone, a text or null
wrapped_value(key, shape) ==
    LET rec == JsonObj(<< <<<<"s","r","c">>, JsonStr(key)>> >>)
    IN  CASE shape = "list" -> JsonList(<<rec, REC_A>>)
          [] shape = "obj" -> rec
          [] shape = "str" -> JsonStr(key)
          [] shape = "null" -> JsonNull

\* entries beside the wrapper keys
PLAIN_ENTRIES ==
    [ none |-> <<>>,
      scalars |-> << <<<<"p","e","r","m","i","t","_","i","d">>, JsonStr(<<"P","-","1">>)>>, <<<<"o","p","e","r","a","t","o","r">>, JsonStr(<<"A","c","m","e">>)>> >>,
      columns |-> << <<<<"p","e","r","m","i","t","_","i","d">>, JsonList(<<JsonStr(<<"P","-","1">>), JsonStr(<<"P","-","2">>)>>)>>,
                     <<<<"o","p","e","r","a","t","o","r">>, JsonList(<<JsonStr(<<"A","c","m","e">>), JsonNull>>)>> >>,
      mixed |-> << <<<<"p","e","r","m","i","t","_","i","d">>, JsonList(<<JsonStr(<<"P","-","1">>), JsonStr(<<"P","-","2">>)>>)>>,
                   <<<<"s","t","a","t","e">>, JsonStr(<<"T","X">>)>> >>,
      ragged |-> << <<<<"p","e","r","m","i","t","_","i","d">>, JsonList(<<JsonStr(<<"P","-","1">>), JsonStr(<<"P","-","2">>)>>)>>,
                    <<<<"o","p","e","r","a","t","o","r">>, JsonList(<<JsonStr(<<"A","c","m","e">>)>>)>> >> ]

\* the object holding the plain entries and then the wrapper keys of ws, in
\* list order or reversed
object_of(plain, ws, shape, reversed) ==
    LET present == SelectSeq(WRAPPER_KEYS, LAMBDA k : k \in ws)
        n == Len(present)
        ordered == list_of(n, LAMBDA i : IF reversed THEN present[n + 1 - i] ELSE present[i])
    IN  JsonObj(PLAIN_ENTRIES[plain]
                \o list_of(n, LAMBDA i : <<ordered[i], wrapped_value(ordered[i], shape)>>))

JSON_VALUES ==
    {JsonList(l) : l \in item_lists(MaxItems)}
    \cup {JsonStr(<<"n","o","n","e">>), JsonNull}
    \cup {object_of(plain, ws, shape, reversed) :
            plain \in DOMAIN PLAIN_ENTRIES,
            ws \in SUBSET {WRAPPER_KEYS[i] : i \in 1..Len(WRAPPER_KEYS)},
            shape \in {"list", "obj", "str", "null"},
            reversed \in BOOLEAN}

CSV_BODIES ==
    { CsvBody(<<>>, <<>>),
      CsvBody(<< <<"P","e","r","m","i","t","_","N","o">>, <<"E","x","p","i","r","y","_","D","a","t","e">> >>, <<>>),
      CsvBody(<< <<"P","e","r","m","i","t","_","N","o">>, <<"E","x","p","i","r","y","_","D","a","t","e">> >>,
              << << <<"A","-","1","7">>, <<"2","0","2","6","-","0","3","-","0","1">> >>, << <<>>, <<"n","/","a">> >> >>) }

\* Content-Type values as the fetchers pass them on, lower-cased
JSON_TYPES == { <<"a","p","p","l","i","c","a","t","i","o","n","/","j","s","o","n">>, <<"a","p","p","l","i","c","a","t","i","o","n","/","j","s","o","n",";"," ","c","h","a","r","s","e","t","=","u","t","f","-","8">> }
OTHER_TYPES == { <<"t","e","x","t","/","c","s","v">>, <<>> }

\* a JSON document is not offered to read_csv: the frame pandas makes of
\* its text is not modelled
DECODER_INPUTS ==
    ({JsonBody(v) : v \in JSON_VALUES} \X JSON_TYPES)
    \cup ((CSV_BODIES \cup {GarbageBody}) \X (JSON_TYPES \cup OTHER_TYPES))

InitDecode ==
    /\ dpc = "ready"
    /\ \E input \in DECODER_INPUTS :
        /\ content = input[1]
        /\ content_type = input[2]
    /\ decoded = <<>>
    /\ HIdle /\ FIdle /\ AIdle /\ JIdle

Decode ==
    /\ dpc = "ready"
    /\ decoded' = _response_to_dataframe(content, content_type)
    /\ dpc' = "done"
    /\ UNCHANGED <<content, content_type, hvars, fvars, avars, jvars>>

NextDecode == Decode
SpecDecode == InitDecode /\ [][NextDecode]_vars

----------------------------------------------------------------------------
(* properties of the decoder *)

json_decoded ==
    /\ dpc = "done"
    /\ str_contains(content_type, <<"j","s","o","n">>)
    /\ content.kind = "json"

\* the result is the table of the records: a row per record, holding under
\* each of its keys the value the record has there
is_table_of(result, records) ==
    /\ result.ok
    /\ nrows(result.frame) = Len(records)
    /\ \A r \in 1..Len(records) :
        /\ records[r].t = "obj"
        /\ \A e \in 1..Len(records[r].entries) :
            LET key == records[r].entries[e][1]
            IN  /\ has_column(result.frame, key)
                /\ get_column(result.frame, key)[r] = json_cell(records[r].entries[e][2])

present_wrappers(obj) == {k \in 1..Len(WRAPPER_KEYS) : obj_has(obj, WRAPPER_KEYS[k])}

\* a top-level sequence is the record sequence
C9_ListUsedDirectly ==
    (json_decoded /\ content.value.t = "list")
        => is_table_of(decoded, content.value.items)

\* the first wrapper key present, in priority order, gives the record sequence
C9_WrapperPriority ==
    (json_decoded /\ content.value.t = "obj" /\ present_wrappers(content.value) # {})
        => LET inner == obj_get(content.value,
                                WRAPPER_KEYS[SetMin(present_wrappers(content.value))])
           IN  inner.t = "list" => is_table_of(decoded, inner.items)

\* a mapping without wrapper key, its fields texts or null, is one record
C9_BareMappingIsOneRecord ==
    (/\ json_decoded /\ content.value.t = "obj"
     /\ present_wrappers(content.value) = {}
     /\ content.value.entries # <<>>
     /\ \A e \in 1..Len(content.value.entries) :
            content.value.entries[e][2].t \in {"str", "null"})
        => is_table_of(decoded, <<content.value>>)

\* C9 as claimed: for a JSON content type a top-level sequence is used
\* directly; a top-level mapping gives the value of the first wrapper key
\* present among data, results, features, items; a mapping with none of them
\* decodes to exactly one record and does not fail.
C9_RecordSequenceSelection ==
    /\ C9_ListUsedDirectly
    /\ C9_WrapperPriority
    /\ C9_BareMappingIsOneRecord

\* {"permit_id": "P-1", "operator": "Acme"} served as application/json
C9_BareRecord ==
    (json_decoded /\ content.value = JsonObj(PLAIN_ENTRIES.scalars)) => decoded.ok

----------------------------------------------------------------------------
(* harmonizer runs *)

MaxCols == 2
MaxRows == 2
MaxHeaderCols == 2
MaxHeaderRows == 1

\* header spellings as sources deliver them
HEADER_POOL ==
    { <<" "," ","A","P","I","_","N","u","m","b","e","r"," ">>, <<"P","e","r","m","i","t","_","N","o">>, <<"a","p","i">>, <<"A","P","I"," ">>,
      <<"J","u","r","i","s","d","i","c","t","i","o","n">>, <<"e","x","p","i","r","e","s"," ","o","n">>, <<"E","x","p","i","r","y","_","D","a","t","e">> }
CELL_HEADER_POOL == { <<" "," ","A","P","I","_","N","u","m","b","e","r"," ">>, <<"J","u","r","i","s","d","i","c","t","i","o","n">>, <<"E","x","p","i","r","y","_","D","a","t","e">> }

SAMPLE_TEXT == << <<"A","-","1","7">>, <<"2","0","2","6","-","0","3","-","0","1">>, <<"n","/","a">>, <<"B","-","2","2">> >>
JURISDICTIONS == { <<"T","X">>, <<"L","A">> }

\* sequences of distinct headers of the pool, at most n long
RECURSIVE header_lists(_, _)
header_lists(pool, n) ==
    IF n = 0 THEN {<<>>}
    ELSE LET shorter == header_lists(pool, n - 1)
         IN  shorter \cup {Append(l, h) : l \in {x \in shorter : Len(x) = n - 1},
                                          h \in pool}

distinct_headers(l) == \A i, j \in 1..Len(l) : l[i] = l[j] => i = j

\* the frame with the given headers whose cell (r, c) is empty where
\* blank[r][c] and holds a sample text otherwise
frame_of(cols, blank) ==
    DataFrame(cols,
              list_of(Len(blank), LAMBDA r :
                  list_of(Len(cols), LAMBDA c :
                      IF blank[r][c] THEN NA ELSE Str(SAMPLE_TEXT[((r + c) % 4) + 1]))))

\* few headers, every pattern of empty cells
CELL_FRAMES ==
    UNION { UNION { {frame_of(cols, blank) :
                        blank \in [1..n -> [1..Len(cols) -> BOOLEAN]]} :
                    n \in 0..MaxRows } :
            cols \in {l \in header_lists(CELL_HEADER_POOL, MaxCols) : distinct_headers(l)} }

\* many headers, no empty cell
HEADER_FRAMES ==
    UNION { {frame_of(cols, [r \in 1..n |-> [c \in 1..Len(cols) |-> FALSE]]) :
                n \in 0..MaxHeaderRows} :
            cols \in {l \in header_lists(HEADER_POOL, MaxHeaderCols) : distinct_headers(l)} }

InitCells ==
    /\ hpc = "ready"
    /\ df \in CELL_FRAMES
    /\ fallback_state = <<>>
    /\ resolved = NOT_RUN
    /\ out = NOT_RUN
    /\ DIdle /\ FIdle /\ AIdle /\ JIdle

InitHeaders ==
    /\ hpc = "ready"
    /\ df \in HEADER_FRAMES
    /\ fallback_state = <<>>
    /\ resolved = NOT_RUN
    /\ out = NOT_RUN
    /\ DIdle /\ FIdle /\ AIdle /\ JIdle

\* the app's harmonizer applied to the input; resolved records the local
\* out as the alias loop leaves it
HarmonizeApp ==
    /\ hpc = "ready"
    /\ \E fs \in JURISDICTIONS :
        /\ fallback_state' = fs
        /\ out' = harmonize_schema(df, fs)
    /\ resolved' = resolved_frame(df)
    /\ hpc' = "app"
    /\ UNCHANGED <<df, dvars, fvars, avars, jvars>>

INGEST_TIMES == {1}

\* the ingestion job's harmonizer applied to the input
HarmonizeJob ==
    /\ hpc = "ready"
    /\ \E fs \in JURISDICTIONS, stamp \in INGEST_TIMES :
        /\ fallback_state' = fs
        /\ out' = harmonize_schema_job(df, fs, stamp)
    /\ resolved' = resolved_frame(df)
    /\ hpc' = "job"
    /\ UNCHANGED <<df, dvars, fvars, avars, jvars>>

NextHarmonize == HarmonizeApp \/ HarmonizeJob
SpecCells == InitCells /\ [][NextHarmonize]_vars
SpecHeaders == InitHeaders /\ [][NextHarmonize]_vars

----------------------------------------------------------------------------
(* properties of the harmonizer *)

harmonized == hpc \in {"app", "job"}
column_set(frame) == {frame.columns[i] : i \in 1..Len(frame.columns)}

RECURSIVE digits_value(_)
digits_value(s) ==
    IF s = <<>> THEN 0
    ELSE 10 * digits_value(SubSeq(s, 1, Len(s) - 1)) + digit_val(s[Len(s)])

\* text is prefix, "-AUTO-" and the six-digit, zero-padded decimal of n
is_auto_id(text, prefix, n) ==
    LET p == Len(prefix)
    IN  /\ Len(text) = p + 12
        /\ SubSeq(text, 1, p) = prefix
        /\ SubSeq(text, p + 1, p + 6) = <<"-","A","U","T","O","-">>
        /\ \A i \in (p + 7)..(p + 12) : is_digit(text[i])
        /\ digits_value(SubSeq(text, p + 7, p + 12)) = n

\* C4: identifier synthesis is all-or-nothing.  When no record has an
\* identifier after alias resolution, the r-th output record gets
\* {fallback}-AUTO-{r} zero-padded, counting from 1 in input order; when at
\* least one record has one, every identifier, empty or not, is left as it is.
C4_SynthesisAllOrNothing ==
    harmonized =>
        LET ids == get_column(resolved, <<"p","e","r","m","i","t","_","i","d">>)
            got == get_column(out, <<"p","e","r","m","i","t","_","i","d">>)
        IN  /\ Len(got) = nrows(df)
            /\ IF \A r \in 1..Len(ids) : ids[r] = NA
               THEN \A r \in 1..Len(got) :
                        /\ "str" \in DOMAIN got[r]
                        /\ is_auto_id(got[r].str, fallback_state, r)
               ELSE got = ids

\* a batch of two records whose identifier column is found and empty
\* throughout, harmonized
C4_Witness ==
    /\ harmonized
    /\ nrows(df) = 2
    /\ _find_alias_column(df.columns, COLUMN_ALIASES[1][2]) # None
    /\ \A r \in 1..2 : get_column(resolved, <<"p","e","r","m","i","t","_","i","d">>)[r] = NA
    /\ get_column(out, <<"p","e","r","m","i","t","_","i","d">>)[2] = Str(fallback_state \o <<"-","A","U","T","O","-","0","0","0","0","0","2">>)

\* a batch with one identifier present and one empty, harmonized
C4_WitnessMixed ==
    /\ harmonized
    /\ \E r1, r2 \in 1..nrows(df) :
        /\ get_column(resolved, <<"p","e","r","m","i","t","_","i","d">>)[r1] = NA
        /\ get_column(resolved, <<"p","e","r","m","i","t","_","i","d">>)[r2] # NA
        /\ get_column(out, <<"p","e","r","m","i","t","_","i","d">>)[r1] = NA

\* C6 as claimed: the output of either harmonizer has exactly the ten
\* canonical columns.
C6_ExactlyTenColumnsBoth ==
    harmonized =>
        /\ Len(out.columns) = 10
        /\ column_set(out) = {REQUIRED_COLUMNS[i] : i \in 1..10}

\* C6 amended: the app's harmonizer outputs exactly the ten canonical columns;
\* the ingestion job's outputs the ten canonical columns and ingested_at_utc,
\* and no other.
C6_CanonicalColumns ==
    /\ hpc = "app" =>
        /\ Len(out.columns) = 10
        /\ column_set(out) = {REQUIRED_COLUMNS[i] : i \in 1..10}
    /\ hpc = "job" =>
        /\ Len(out.columns) = 11
        /\ column_set(out) = {REQUIRED_COLUMNS[i] : i \in 1..10} \cup { <<"i","n","g","e","s","t","e","d","_","a","t","_","u","t","c">> }
    /\ harmonized => nrows(out) = nrows(df)

\* the app's harmonizer has run on an input with a header no alias matches
\* and a header an alias matches
C6_Witness ==
    /\ hpc = "app"
    /\ has_column(df, <<"e","x","p","i","r","e","s"," ","o","n">>)
    /\ has_column(df, <<" "," ","A","P","I","_","N","u","m","b","e","r"," ">>)
    /\ nrows(df) = 1

\* the candidate of the k-th canonical field, as listed, matches the header
matches(header, cand) == str_strip(str_lower(header)) = cand

\* C8: alias resolution ignores case and surrounding whitespace and the first
\* matching candidate wins: each canonical field takes the values of an input
\* column whose lower-cased, trimmed header equals the earliest candidate of
\* the field that any header matches, and is empty in every record when no
\* candidate matches; "  API_Number " resolves to permit_id.
C8_AliasResolution ==
    harmonized =>
        /\ \A k \in 1..Len(COLUMN_ALIASES) :
            LET cands == COLUMN_ALIASES[k][2]
                hits == {j \in 1..Len(cands) :
                            \E i \in 1..Len(df.columns) : matches(df.columns[i], cands[j])}
                got == get_column(resolved, COLUMN_ALIASES[k][1])
            IN  IF hits = {}
                THEN \A r \in 1..Len(got) : got[r] = NA
                ELSE \E i \in 1..Len(df.columns) :
                        /\ matches(df.columns[i], cands[SetMin(hits)])
                        /\ got = get_column(df, df.columns[i])
        /\ (df.columns = << <<" "," ","A","P","I","_","N","u","m","b","e","r"," ">> >>
                => get_column(resolved, <<"p","e","r","m","i","t","_","i","d">>) = get_column(df, <<" "," ","A","P","I","_","N","u","m","b","e","r"," ">>))

\* "  API_Number " and "api" are both present in a batch of one record:
\* api_number is the earlier candidate and its column is taken
C8_Witness ==
    /\ harmonized
    /\ nrows(df) = 1
    /\ df.columns = << <<"a","p","i">>, <<" "," ","A","P","I","_","N","u","m","b","e","r"," ">> >>
    /\ get_column(resolved, <<"p","e","r","m","i","t","_","i","d">>) = get_column(df, <<" "," ","A","P","I","_","N","u","m","b","e","r"," ">>)
    /\ get_column(resolved, <<"e","x","p","i","r","a","t","i","o","n","_","d","a","t","e">>) = <<NA>>

----------------------------------------------------------------------------
(* Live-Source Coordinator and the script of the app *)

\* str(exc): the message an exception carries
exc_str(exc) ==
    CASE exc = "Timeout" -> <<"R","e","a","d"," ","t","i","m","e","d"," ","o","u","t",".">>
      [] exc = "HTTPError" -> <<"4","0","4"," ","C","l","i","e","n","t"," ","E","r","r","o","r",":"," ","N","o","t"," ","F","o","u","n","d"," ","f","o","r"," ","u","r","l">>
      [] exc = "JSONDecodeError" -> <<"E","x","p","e","c","t","i","n","g"," ","v","a","l","u","e",":"," ","l","i","n","e"," ","1"," ","c","o","l","u","m","n"," ","1"," ","(","c","h","a","r"," ","0",")">>
      [] exc = "ParserError" -> <<"E","r","r","o","r"," ","t","o","k","e","n","i","z","i","n","g"," ","d","a","t","a",".">>
      [] OTHER -> <<"I","f"," ","u","s","i","n","g"," ","a","l","l"," ","s","c","a","l","a","r"," ","v","a","l","u","e","s",","," ","y","o","u"," ","m","u","s","t"," ","p","a","s","s"," ","a","n"," ","i","n","d","e","x">>

\* f"{state} source URL is empty."
issue_empty(state) == state \o <<" ","s","o","u","r","c","e"," ","U","R","L"," ","i","s"," ","e","m","p","t","y",".">>
\* f"{state} fetch failed: {exc}"
issue_failed(state, exc) == state \o <<" ","f","e","t","c","h"," ","f","a","i","l","e","d",":"," ">> \o exc_str(exc)

RECURSIVE union_columns(_, _, _)
\* the columns of the frames from the k-th on, in order of first appearance
union_columns(frames, acc, k) ==
    IF k > Len(frames) THEN acc
    ELSE union_columns(frames,
                       acc \o SelectSeq(frames[k].columns,
                                        LAMBDA c : \A i \in 1..Len(acc) : acc[i] # c),
                       k + 1)

RECURSIVE concat_rows(_, _, _)
\* the rows of the frames from the k-th on, laid out under cols
concat_rows(frames, cols, k) ==
    IF k > Len(frames) THEN <<>>
    ELSE list_of(nrows(frames[k]), LAMBDA r :
             list_of(Len(cols), LAMBDA c :
                 IF has_column(frames[k], cols[c])
                 THEN frames[k].rows[r][col_index(frames[k], cols[c])]
                 ELSE NA))
         \o concat_rows(frames, cols, k + 1)

\* pd.concat(frames, ignore_index=True)
concat(frames) ==
    LET cols == union_columns(frames, <<>>, 1)
    IN  DataFrame(cols, concat_rows(frames, cols, 1))

\* frame.empty
empty(frame) == frame.columns = <<>> \/ frame.rows = <<>>

\* [("TX", tx_url), ("LA", la_url)]
SOURCES(tx_url, la_url) == << << <<"T","X">>, tx_url >>, << <<"L","A">>, la_url >> >>

\* the accumulators of load_live_data's loop: the frames and issues
\* collected, and the cache store
accumulators(store) == [frames |-> <<>>, issues |-> <<>>, store |-> store]

\* the try statement, call being what the cached fetch of the source gave
after_fetch(acc, state, call) ==
    IF call.result.ok
    THEN [frames |-> Append(acc.frames, call.result.frame),
          issues |-> acc.issues,
          store |-> call.store]
    ELSE [frames |-> acc.frames,
          issues |-> Append(acc.issues, issue_failed(state, call.result.error)),
          store |-> call.store]

\* one pass of the loop body; get is what the GETs of the source give if its
\* fetch goes to the network
load_live_step(acc, state, url, get, t) ==
    IF url = <<>>
    THEN [frames |-> acc.frames,
          issues |-> Append(acc.issues, issue_empty(state)),
          store |-> acc.store]
    ELSE after_fetch(acc, state, cached_fetch(acc.store, t, url, state, get[1], get[2]))

RECURSIVE load_live_loop_break(_, _, _, _, _)
\* variant: the loop ends at the first source whose fetch fails
load_live_loop_break(sources, gets, k, acc, t) ==
    IF k > Len(sources) THEN acc
    ELSE LET next == load_live_step(acc, sources[k][1], sources[k][2], gets[k], t)
         IN  IF sources[k][2] # <<>> /\ Len(next.issues) > Len(acc.issues)
             THEN next
             ELSE load_live_loop_break(sources, gets, k + 1, next, t)

RECURSIVE load_live_loop(_, _, _, _, _)
\* the for loop of load_live_data from the k-th source on
load_live_loop(sources, gets, k, acc, t) ==
    IF k > Len(sources) THEN acc
    ELSE load_live_loop(sources, gets, k + 1,
                        load_live_step(acc, sources[k][1], sources[k][2], gets[k], t), t)

\* variant: with no frame collected, a frame without columns is returned
live_return_no_columns(acc) ==
    [raised |-> FALSE,
     data |-> IF acc.frames = <<>> THEN DataFrame(<<>>, <<>>) ELSE concat(acc.frames),
     issues |-> acc.issues,
     store |-> acc.store]

\* what load_live_data returns after the loop (nothing in the function
\* raises past the except clause), and the cache store it leaves
live_return(acc) ==
    [raised |-> FALSE,
     data |-> IF acc.frames = <<>>
              THEN DataFrame(REQUIRED_COLUMNS, <<>>)
              ELSE concat(acc.frames),
     issues |-> acc.issues,
     store |-> acc.store]

load_live_data(store, t, tx_url, la_url, gets) ==
    live_return(load_live_loop(SOURCES(tx_url, la_url), gets, 1, accumulators(store), t))

\* load_sample_data(), today being date.today() as a day number
load_sample_data(today) ==
    DataFrame(REQUIRED_COLUMNS,
        << << Str(<<"T","X","-","2","0","2","6","-","0","0","1","2","3">>), Str(<<"T","X">>), Str(<<"L","o","n","e"," ","S","t","a","r"," ","E","n","e","r","g","y">>), Str(<<"R","e","e","v","e","s">>),
              Str(<<"L","S","U"," ","1","4","H">>), Str(<<"H","o","r","i","z","o","n","t","a","l">>), Str(<<"A","p","p","r","o","v","e","d">>),
              Ts(today - 34), Ts(today - 13), Ts(today + 352) >>,
           << Str(<<"T","X","-","2","0","2","6","-","0","0","1","8","8">>), Str(<<"T","X">>), Str(<<"P","e","r","m","i","a","n"," ","D","e","l","t","a"," ","O","p","e","r","a","t","i","n","g">>), Str(<<"M","i","d","l","a","n","d">>),
              Str(<<"D","e","l","t","a"," ","U","n","i","t"," ","5">>), Str(<<"V","e","r","t","i","c","a","l">>), Str(<<"P","e","n","d","i","n","g">>),
              Ts(today - 21), NA, Ts(today + 344) >>,
           << Str(<<"L","A","-","2","0","2","6","-","0","0","4","1">>), Str(<<"L","A">>), Str(<<"B","a","y","o","u"," ","H","y","d","r","o","c","a","r","b","o","n","s">>), Str(<<"C","a","d","d","o">>),
              Str(<<"B","H"," ","C","o","t","t","o","n"," ","V","a","l","l","e","y"," ","3">>), Str(<<"D","i","r","e","c","t","i","o","n","a","l">>), Str(<<"A","p","p","r","o","v","e","d">>),
              Ts(today - 50), Ts(today - 25), Ts(today + 155) >>,
           << Str(<<"L","A","-","2","0","2","6","-","0","0","5","7">>), Str(<<"L","A">>), Str(<<"G","u","l","f"," ","C","o","a","s","t"," ","R","e","s","o","u","r","c","e","s">>), Str(<<"L","a","f","o","u","r","c","h","e">>),
              Str(<<"G","C"," ","L","e","v","e","e"," ","1">>), Str(<<"R","e","-","e","n","t","r","y">>), Str(<<"E","x","p","i","r","e","d">>),
              Ts(today - 420), Ts(today - 390), Ts(today - 15) >> >>)

\* validate_dataframe: <<valid, missing>>
validate_dataframe(frame) ==
    LET missing == SelectSeq(REQUIRED_COLUMNS, LAMBDA c : ~has_column(frame, c))
    IN  << missing = <<>>, missing >>

RECURSIVE normalize_dates_from(_, _)
\* the loop of normalize_dates from the k-th date column on: df[col] of a
\* column the frame lacks raises KeyError, the frame as converted so far
normalize_dates_from(frame, k) ==
    IF k > Len(DATE_COLUMNS) THEN Ok(frame)
    ELSE IF ~has_column(frame, DATE_COLUMNS[k])
    THEN [ok |-> FALSE, error |-> "KeyError", frame |-> frame]
    ELSE normalize_dates_from(column_to_datetime(frame, DATE_COLUMNS[k]), k + 1)

normalize_dates(frame) == normalize_dates_from(frame, 1)

RECURSIVE join(_, _)
\* sep.join(items)
join(sep, items) ==
    IF items = <<>> THEN <<>>
    ELSE IF Len(items) = 1 THEN items[1]
    ELSE items[1] \o sep \o join(sep, Tail(items))

\* the text given to st.error
schema_error(missing_cols) ==
    <<"L","o","a","d","e","d"," ","d","a","t","a"," ","i","s"," ","m","i","s","s","i","n","g"," ","r","e","q","u","i","r","e","d"," ","c","o","l","u","m","n","s",":"," ">> \o join(<<","," ">>, missing_cols)
        \o <<".", "\n", "\n">> \o <<"E","x","p","e","c","t","e","d"," ","c","o","l","u","m","n","s",":"," ">> \o join(<<","," ">>, REQUIRED_COLUMNS)

\* data["days_to_expiry"] = (data["expiration_date"] - today).dt.days
days_to_expiry(frame, today) ==
    LET expiry == get_column(frame, <<"e","x","p","i","r","a","t","i","o","n","_","d","a","t","e">>)
    IN  set_column(frame, <<"d","a","y","s","_","t","o","_","e","x","p","i","r","y">>,
                   list_of(nrows(frame), LAMBDA r :
                       IF isna(expiry[r]) THEN NA ELSE [days |-> expiry[r].ts - today]))

\* the run goes on to the dashboard with days_to_expiry computed
render(frame, today) ==
    [ended |-> [how |-> "rendered"],
     data |-> days_to_expiry(normalize_dates(frame).frame, today)]

\* st.error and st.stop if validate_dataframe found columns missing
stop_or_render(frame, checked, today) ==
    IF ~checked[1]
    THEN [ended |-> [how |-> "stopped", missing |-> checked[2],
                     error |-> schema_error(checked[2])],
          data |-> frame]
    ELSE render(frame, today)

\* first being what the first normalize_dates gave
validate_and_render(first, today) ==
    IF ~first.ok
    THEN [ended |-> [how |-> "exception", error |-> first.error], data |-> first.frame]
    ELSE stop_or_render(first.frame, validate_dataframe(first.frame), today)

\* the normalization flow on the selected batch: how the run ends and the
\* batch it ends with
normalization_flow(frame, today) == validate_and_render(normalize_dates(frame), today)

\* the mode selection, pulled being what load_live_data returned in live
\* mode: the batch selected, or the exception read_csv raises
select_batch(w, pulled, today) ==
    IF w.mode = "Live source pull"
    THEN IF empty(pulled.data) THEN Ok(load_sample_data(today)) ELSE Ok(pulled.data)
    ELSE IF w.mode = "Upload CSV" /\ w.uploaded # <<>>
    THEN read_csv(w.uploaded)
    ELSE Ok(load_sample_data(today))

\* what a run leaves, flow being the outcome of the normalization flow
run_record(pulled, selected, shown, after, flow) ==
    [live |-> pulled, loaded |-> selected, issues |-> shown, store |-> after,
     ended |-> flow.ended, data |-> flow.data]

normalize_selected(pulled, selected, shown, after, today) ==
    IF ~selected.ok
    THEN run_record(pulled, selected, shown, after,
                    [ended |-> [how |-> "exception", error |-> selected.error],
                     data |-> <<>>])
    ELSE run_record(pulled, selected, shown, after,
                    normalization_flow(selected.frame, today))

select_and_normalize(w, cleared, pulled, today) ==
    normalize_selected(pulled, select_batch(w, pulled, today),
                       IF w.mode = "Live source pull" THEN pulled.issues ELSE <<>>,
                       IF w.mode = "Live source pull" THEN pulled.store ELSE cleared,
                       today)

\* if refresh: fetch_remote_permits.clear()
refreshed(w, store) == IF w.refresh THEN <<>> ELSE store

\* One run of the script from the refresh button to days_to_expiry.  w holds
\* the widget values (uploaded is <<>> without an uploaded file), gets what
\* the network gives each source, today the current day.
script(store, t, w, gets, today) ==
    select_and_normalize(w, refreshed(w, store),
                         IF w.mode = "Live source pull"
                         THEN load_live_data(refreshed(w, store), t,
                                             str_strip(w.tx_url), str_strip(w.la_url), gets)
                         ELSE <<>>,
                         today)

----------------------------------------------------------------------------
(* runs of the app *)

\* an uploaded file may lack up to MaxMissing of the required columns
MaxMissing == 2

MODES == {"Live source pull", "Upload CSV", "Sample data"}
TX_INPUTS == {<<>>, <<" "," ">>, <<" ","h","t","t","p",":","/","/","t","x"," ">>}
LA_INPUTS == {<<>>, LA_URL}
TODAYS == {days_from_civil(2026, 2, 1)}

EMPTY_EXPORT == Response(200, <<"a","p","p","l","i","c","a","t","i","o","n","/","j","s","o","n">>, JsonBody(JsonList(<<>>)))

\* what the two GETs of a fetch of url may give
get_pairs(url) ==
    IF url = <<>> THEN {<<>>}
    ELSE {<<TIMEOUT, TIMEOUT>>}
            \cup {<<NOT_FOUND, r>> : r \in responses(url) \cup {EMPTY_EXPORT}}

DROPPABLE == {<<"o","p","e","r","a","t","o","r">>, <<"s","t","a","t","u","s">>, <<"a","p","p","r","o","v","a","l","_","d","a","t","e">>, <<"e","x","p","i","r","a","t","i","o","n","_","d","a","t","e">>}

\* a CSV file of one permit under the required columns but those of absent
upload_of(absent) ==
    LET header == SelectSeq(REQUIRED_COLUMNS, LAMBDA c : c \notin absent)
    IN  CsvBody(header,
                << list_of(Len(header), LAMBDA c :
                       IF \E k \in 1..Len(DATE_COLUMNS) : DATE_COLUMNS[k] = header[c]
                       THEN <<"2","0","2","6","-","0","3","-","0","1">>
                       ELSE <<"x">>) >>)

UPLOADS ==
    {<<>>, GarbageBody}
        \cup {upload_of(absent) : absent \in {m \in SUBSET DROPPABLE : Cardinality(m) <= MaxMissing}}

\* the widget values of a run: the URL inputs keep a default outside live
\* mode, the uploader is empty outside upload mode
WIDGETS ==
    {[mode |-> "Live source pull", tx_url |-> tx, la_url |-> la, refresh |-> rf, uploaded |-> <<>>] :
        tx \in TX_INPUTS, la \in LA_INPUTS, rf \in BOOLEAN}
    \cup {[mode |-> "Upload CSV", tx_url |-> TX_URL, la_url |-> LA_URL, refresh |-> rf, uploaded |-> up] :
        rf \in BOOLEAN, up \in UPLOADS}
    \cup {[mode |-> "Sample data", tx_url |-> TX_URL, la_url |-> LA_URL, refresh |-> rf, uploaded |-> <<>>] :
        rf \in BOOLEAN}

attempt_record(state, url, call) ==
    [state |-> state, url |-> url, result |-> call.result, store |-> call.store]

\* what a source of a live run gave: <<>> for an empty URL, else the result
\* of its fetch through the cache
attempt(store, t, state, url, get) ==
    IF url = <<>> THEN [state |-> state, url |-> url, result |-> <<>>, store |-> store]
    ELSE attempt_record(state, url, cached_fetch(store, t, url, state, get[1], get[2]))

\* the attempt as the properties see it
observed(a) == [state |-> a.state, url |-> a.url, result |-> a.result]

attempts_from(tx, t, la_url, gets) ==
    << observed(tx), observed(attempt(tx.store, t, <<"L","A">>, la_url, gets[2])) >>

attempts_of(store, t, tx_url, la_url, gets) ==
    attempts_from(attempt(store, t, <<"T","X">>, tx_url, gets[1]), t, la_url, gets)

\* what the network gives the sources of a run; no source is fetched
\* outside live mode
network(w) ==
    IF w.mode = "Live source pull"
    THEN get_pairs(str_strip(w.tx_url)) \X get_pairs(str_strip(w.la_url))
    ELSE {<< <<>>, <<>> >>}

InitApp ==
    /\ widgets = <<>> /\ attempts = <<>> /\ live_result = <<>> /\ loaded = <<>>
    /\ data = <<>> /\ issues = <<>> /\ ended = <<>>
    /\ HIdle /\ DIdle /\ FIdle /\ JIdle

\* the script runs once, top to bottom, on the widget values of the moment
Run ==
    \E w \in WIDGETS, today \in TODAYS :
        \E gets \in network(w) :
            \E run \in {script(cache, now, w, gets, today)} :
                /\ widgets' = w
                /\ attempts' = IF w.mode = "Live source pull"
                               THEN attempts_of(refreshed(w, cache), now,
                                                str_strip(w.tx_url), str_strip(w.la_url), gets)
                               ELSE <<>>
                /\ live_result' = run.live
                /\ loaded' = run.loaded
                /\ data' = run.data
                /\ issues' = run.issues
                /\ ended' = run.ended
                /\ cache' = run.store
                /\ UNCHANGED <<now, prev, pair, hvars, dvars, jvars>>

\* reruns within one lifetime of the cache entries
NextApp == Run
SpecApp == InitApp /\ [][NextApp]_vars

----------------------------------------------------------------------------
(* properties of the coordinator and of the normalization stage *)

live_run == live_result # <<>>
attempt_ok(a) == a.result # <<>> /\ a.result.ok
failed_attempts == SelectSeq(attempts, LAMBDA a : ~attempt_ok(a))
good_attempts == SelectSeq(attempts, LAMBDA a : attempt_ok(a))

RECURSIVE rows_of(_)
\* the rows the attempts fetched, in order
rows_of(as) == IF as = <<>> THEN <<>> ELSE as[1].result.frame.rows \o rows_of(Tail(as))

starts_with(s, prefix) == Len(s) >= Len(prefix) /\ SubSeq(s, 1, Len(prefix)) = prefix

\* the issue names the source of the attempt, as empty or as failed
issue_names(issue, a) ==
    /\ starts_with(issue, a.state \o <<" ">>)
    /\ \A other \in {<<"T","X">>, <<"L","A">>} \ {a.state} : ~str_contains(issue, other)
    /\ IF a.result = <<>> THEN str_contains(issue, <<"U","R","L"," ","i","s"," ","e","m","p","t","y">>)
       ELSE str_contains(issue, <<"f","e","t","c","h"," ","f","a","i","l","e","d">>)

\* C1: whatever the two sources gave, load_live_data returns (no exception
\* escapes it); the issues are one per empty or failed source, in source
\* order, each naming its jurisdiction; the batch holds all rows of the
\* sources that succeeded, in source order, and no other row.
C1_PartialFailure ==
    live_run =>
        /\ ~live_result.raised
        /\ Len(attempts) = 2
        /\ Len(live_result.issues) = Len(failed_attempts)
        /\ \A i \in 1..Len(failed_attempts) :
              issue_names(live_result.issues[i], failed_attempts[i])
        /\ live_result.data.rows = rows_of(good_attempts)
        /\ \A r \in 1..nrows(live_result.data) :
              \E g \in 1..Len(good_attempts) :
                  get_column(live_result.data, <<"s","t","a","t","e">>)[r] = Str(good_attempts[g].state)

\* TX failed, LA succeeded: one issue on TX, the one LA row
C1_Witness ==
    /\ live_run
    /\ attempts[1].result # <<>> /\ ~attempts[1].result.ok
    /\ attempt_ok(attempts[2])
    /\ Len(live_result.issues) = 1
    /\ starts_with(live_result.issues[1], <<"T","X"," ","f","e","t","c","h"," ","f","a","i","l","e","d",":"," ">>)
    /\ nrows(live_result.data) = 1
    /\ get_column(live_result.data, <<"s","t","a","t","e">>) = <<Str(<<"L","A">>)>>

\* C7: with no source giving a batch, load_live_data returns the ten
\* canonical columns without rows and one issue per source (the two
\* URL-is-empty issues when both URLs are empty); the sample data appear only
\* in the caller's batch.
C7_EmptyBatchAndIssues ==
    (live_run /\ good_attempts = <<>>) =>
        /\ live_result.data.columns = REQUIRED_COLUMNS
        /\ live_result.data.rows = <<>>
        /\ Len(live_result.issues) = 2
        /\ (attempts[1].url = <<>> /\ attempts[2].url = <<>>)
              => live_result.issues = << <<"T","X"," ","s","o","u","r","c","e"," ","U","R","L"," ","i","s"," ","e","m","p","t","y",".">>,
                                         <<"L","A"," ","s","o","u","r","c","e"," ","U","R","L"," ","i","s"," ","e","m","p","t","y",".">> >>
        /\ loaded.ok /\ nrows(loaded.frame) = 4
        /\ get_column(loaded.frame, <<"p","e","r","m","i","t","_","i","d">>)[1] = Str(<<"T","X","-","2","0","2","6","-","0","0","1","2","3">>)

\* both URL inputs blank: two issues, an empty batch, sample data shown
C7_Witness ==
    /\ live_run
    /\ widgets.tx_url = <<" "," ">> /\ widgets.la_url = <<>>
    /\ Len(live_result.issues) = 2
    /\ live_result.data = DataFrame(REQUIRED_COLUMNS, <<>>)
    /\ nrows(loaded.frame) = 4
    /\ ended.how = "rendered"

\* every source failed to fetch: two issues, an empty batch
C7_WitnessFailed ==
    /\ live_run
    /\ \A i \in 1..2 : attempts[i].result # <<>> /\ ~attempts[i].result.ok
    /\ Len(live_result.issues) = 2
    /\ live_result.data = DataFrame(REQUIRED_COLUMNS, <<>>)

\* the required columns the selected batch lacks
absent_columns == {REQUIRED_COLUMNS[i] : i \in {j \in 1..Len(REQUIRED_COLUMNS) :
                                                 ~has_column(loaded.frame, REQUIRED_COLUMNS[j])}}

\* C5: a selected batch lacking a non-empty set M of required columns ends
\* the run with the schema error naming exactly the columns of M, and
\* days_to_expiry is not computed.
C5_SchemaErrorNamesMissing ==
    (loaded # <<>> /\ loaded.ok /\ absent_columns # {}) =>
        /\ ended.how = "stopped"
        /\ {ended.missing[i] : i \in 1..Len(ended.missing)} = absent_columns
        /\ Len(ended.missing) = Cardinality(absent_columns)
        /\ ~has_column(data, <<"d","a","y","s","_","t","o","_","e","x","p","i","r","y">>)

\* C5, restricted to batches that have the three date columns
C5_NonDateColumns ==
    (/\ loaded # <<>> /\ loaded.ok /\ absent_columns # {}
     /\ \A k \in 1..Len(DATE_COLUMNS) : DATE_COLUMNS[k] \notin absent_columns) =>
        /\ ended.how = "stopped"
        /\ {ended.missing[i] : i \in 1..Len(ended.missing)} = absent_columns
        /\ Len(ended.missing) = Cardinality(absent_columns)
        /\ ~has_column(data, <<"d","a","y","s","_","t","o","_","e","x","p","i","r","y">>)

\* C5, a batch lacking a date column: the first normalize_dates raises
\* KeyError before validate_dataframe is reached
C5_DateColumnsRaise ==
    (/\ loaded # <<>> /\ loaded.ok
     /\ \E k \in 1..Len(DATE_COLUMNS) : DATE_COLUMNS[k] \in absent_columns) =>
        /\ ended = [how |-> "exception", error |-> "KeyError"]
        /\ ~has_column(data, <<"d","a","y","s","_","t","o","_","e","x","p","i","r","y">>)

----------------------------------------------------------------------------
(* the ingestion job *)

\* fetch_remote: one GET; r is what it gives, stamp the time of the
\* harmonizer's datetime.now
stamp_decoded(raw, state, stamp) ==
    IF ~raw.ok THEN raw ELSE Ok(harmonize_schema_job(raw.frame, state, stamp))

fetch_remote(url, state, r, stamp) ==
    IF is_transport_error(r) THEN Raise(r.err)
    ELSE IF r.status >= 400 /\ r.status < 600 THEN Raise("HTTPError")
    ELSE stamp_decoded(_response_to_dataframe(r.body, str_lower(r.ctype)), state, stamp)

\* main raises: nothing is written
job_raises(rows, exc) == [result |-> Raise(exc), table |-> rows, writes |-> 0]

\* variant: the rows fetched from TX are written before the LA fetch raises
persist_partial(rows, tx, la, db) ==
    IF ~tx.ok THEN job_raises(rows, tx.error)
    ELSE IF ~la.ok
    THEN [result |-> Raise(la.error), table |-> rows \o tx.frame.rows, writes |-> 1]
    ELSE IF db # "ok" THEN job_raises(rows, db)
    ELSE [result |-> Ok(concat(<<tx.frame, la.frame>>)),
          table |-> rows \o concat(<<tx.frame, la.frame>>).rows,
          writes |-> 1]

\* the missing-columns check, then create_engine and to_sql: db is what the
\* database gives, "ok" or the exception it raises, the append being one
\* transaction
check_and_append(rows, batch, db) ==
    IF SelectSeq(REQUIRED_COLUMNS, LAMBDA c : ~has_column(batch, c)) # <<>>
    THEN job_raises(rows, "ValueError")
    ELSE IF db # "ok" THEN job_raises(rows, db)
    ELSE [result |-> Ok(batch), table |-> rows \o batch.rows, writes |-> 1]

\* pd.concat of the two fetches, which raises what a fetch raises
persist(rows, tx, la, db) ==
    IF ~tx.ok THEN job_raises(rows, tx.error)
    ELSE IF ~la.ok THEN job_raises(rows, la.error)
    ELSE check_and_append(rows, concat(<<tx.frame, la.frame>>), db)

\* One run of main on the environment env, rows being the rows of the target
\* table: the result, the rows of the table after it, and the number of
\* appends made.
main(rows, env, r_tx, r_la, stamp, db) ==
    IF env.tx_url = <<>> \/ env.la_url = <<>> THEN job_raises(rows, "ValueError")
    ELSE IF env.db_url = <<>> THEN job_raises(rows, "ValueError")
    ELSE persist(rows,
                 fetch_remote(env.tx_url, <<"T","X">>, r_tx, stamp),
                 fetch_remote(env.la_url, <<"L","A">>, r_la, stamp),
                 db)

----------------------------------------------------------------------------
(* runs of the ingestion job *)

MaxRuns == 2

DB_URL == <<"p","o","s","t","g","r","e","s","q","l",":","/","/","d","b","/","p","e","r","m","i","t","s">>
DB_OUTCOMES == {"ok", "OperationalError"}
ENVIRONMENTS ==
    {[tx_url |-> tx, la_url |-> la, db_url |-> db] :
        tx \in {<<>>, TX_URL}, la \in {<<>>, LA_URL}, db \in {<<>>, DB_URL}}

\* what the GET of a source gives; <<>> stands for a URL that is not set
job_responses(url) == IF url = <<>> THEN {<<>>} ELSE responses(url)

\* what the fetch of a source would give the job: <<>> without a URL
job_attempt(url, state, r, stamp) ==
    IF url = <<>> THEN <<>> ELSE fetch_remote(url, state, r, stamp)

InitIngest ==
    /\ table = <<>> /\ job = <<>> /\ runs = 0
    /\ HIdle /\ DIdle /\ FIdle /\ AIdle

Main ==
    /\ runs < MaxRuns
    /\ \E env \in ENVIRONMENTS, stamp \in INGEST_TIMES, db \in DB_OUTCOMES :
          \E r_tx \in job_responses(env.tx_url), r_la \in job_responses(env.la_url) :
              \E run \in {main(table, env, r_tx, r_la, stamp, db)} :
                  /\ table' = run.table
                  /\ job' = [env |-> env, db |-> db, before |-> table,
                             tx |-> job_attempt(env.tx_url, <<"T","X">>, r_tx, stamp),
                             la |-> job_attempt(env.la_url, <<"L","A">>, r_la, stamp),
                             raised |-> ~run.result.ok, writes |-> run.writes]
                  /\ runs' = runs + 1
                  /\ UNCHANGED <<hvars, dvars, fvars, avars>>

NextIngest == Main
SpecIngest == InitIngest /\ [][NextIngest]_vars

----------------------------------------------------------------------------
(* properties of the ingestion job *)

fetched(a) == a # <<>> /\ a.ok

\* everything main needs is there: the three URLs, both fetches, the database
job_ready ==
    /\ job.env.tx_url # <<>> /\ job.env.la_url # <<>> /\ job.env.db_url # <<>>
    /\ fetched(job.tx) /\ fetched(job.la)
    /\ job.db = "ok"

\* C10: a run of main appends at most once; it appends, the rows of TX then
\* those of LA under the ten canonical columns, only when both source URLs
\* and the database URL are set and both fetches succeeded; otherwise it
\* raises and the table is as it was.
C10_AllOrNothing ==
    job # <<>> =>
        /\ job.writes <= 1
        /\ job_ready =>
              /\ ~job.raised /\ job.writes = 1
              /\ table = job.before \o job.tx.frame.rows \o job.la.frame.rows
              /\ \A i \in 1..Len(REQUIRED_COLUMNS) :
                    /\ has_column(job.tx.frame, REQUIRED_COLUMNS[i])
                    /\ has_column(job.la.frame, REQUIRED_COLUMNS[i])
        /\ ~job_ready => job.raised /\ job.writes = 0 /\ table = job.before

\* after a run that persisted three rows, a run whose TX fetch succeeds
\* and whose LA fetch fails raises and leaves the three rows
C10_Witness ==
    /\ job # <<>>
    /\ Len(job.before) = 3
    /\ fetched(job.tx) /\ job.la # <<>> /\ ~job.la.ok
    /\ job.env.db_url # <<>> /\ job.db = "ok"
    /\ job.raised
    /\ table = job.before

\* a run that persists: two TX rows and one LA row appended
C10_WitnessPersisted ==
    /\ job # <<>> /\ ~job.raised /\ job.writes = 1
    /\ Len(table) = Len(job.before) + 3

====
